---- MODULE Spec2Model ----
(***************************************************************************)
(* Order fulfilment and inventory consistency of the shopping backend:     *)
(* POST /order (checkout), PATCH /order/:id (member cancel),               *)
(* PATCH /admin/order/:id (admin status change) and PATCH /cart            *)
(* (setQuantity), over the tables product, promotion, promotion_item,      *)
(* cart, cartItem, order and order_item.                                   *)
(*                                                                         *)
(* Every handler is an async function: each awaited storage call is one    *)
(* step, and a storage call that the handler does not await (the           *)
(* forEach(async ...) inventory updates) is a pending write that lands,    *)
(* or fails, at any later time.                                            *)
(***************************************************************************)
EXTENDS Integers, Sequences, FiniteSets, TLC

VARIABLES
    price,          \* product.price, by product id
    inventory,      \* product.inventory, by product id
    productStatus,  \* product.status, by product id: "1" listed, "0" not listed
    promotionItem,  \* promotion_item: product id -> promotion id, or NoPromotion
    promotion,      \* promotion rows, by promotion id
    today,          \* the instant new Date() returns
    carts,          \* cart: member id -> number of Cart rows of the member
    cartItems,      \* cartItem rows of the member's cart, in id order
    orders,         \* order rows with their order_item rows, in id order
    req,            \* the requests: handler, position, locals, response
    faults,         \* storage calls that have failed so far
    started,        \* requests received so far
    inv0,           \* history: product.inventory in the initial state
    cart0,          \* history: the cartItem rows in the initial state
    passwordReset,  \* the password_reset rows: token and expires
    sweep           \* the cron callback: position, locals, its callbacks in flight

vars == <<price, inventory, productStatus, promotionItem, promotion, today, carts, cartItems, orders, req, faults, started, inv0, cart0, passwordReset, sweep>>

hist == <<inv0, cart0>>

\* what the scheduled cleanup alone reads and writes
cron == <<passwordReset, sweep>>

db == <<price, inventory, productStatus, promotionItem, promotion, carts, cartItems, orders>>

----------------------------------------------------------------------------
(* Bounds of the model *)

\* inventory of every product in the initial state
InitInventory == 2
\* largest quantity of a cart line in the initial state or in a request
MaxQuantity == 2
\* number of requests of a behaviour in which requests arrive at any time
MaxRequests == 2
\* number of requests of a behaviour in which requests arrive one by one
MaxSeqRequests == 3
\* number of storage calls that fail in a behaviour
MaxFaults == 1
\* the last instant the clock reaches
MaxToday == 3
\* number of checkouts of a behaviour that starts from any price and promotion
MaxPriceRequests == 1
\* number of requests of a behaviour of one order and its queries
MaxViewRequests == 4
\* number of passes of the daily cleanup
MaxSweeps == 2
\* number of requests of a behaviour of one checkout followed by overlapping requests
MaxOverlapRequests == 3

Members == {"m1", "m2"}
Products == {"p1", "p2"}
Promotions == {"s1"}
NoPromotion == "none"
\* the requests in flight at the same time
Requests == {1, 2}

\* product.price of the products in the initial state
ProductPrice == [p \in Products |-> IF p = "p1" THEN 10 ELSE 7]

\* Order.status ENUM
OrderStatus == {"created", "confirmed", "shipped", "delivered", "canceled"}

\* HttpStatusCodes used by the handlers
OK == "200"
CREATED == "201"
NO_CONTENT == "204"
BAD_REQUEST == "400"
INTERNAL_SERVER_ERROR == "500"
NoResponse == "pending"
\* a response without a result, and a timestamp column that is NULL
NoBody == "none"
NoDate == 0

----------------------------------------------------------------------------
(* Pure helpers *)

RECURSIVE SumSeq(_)
SumSeq(s) == IF s = <<>> THEN 0 ELSE Head(s) + SumSeq(Tail(s))

\* A JavaScript number is an IEEE 754 binary64 value m * 2^e with a
\* significand m of Precision bits; the exact result of an operation is
\* rounded to Precision bits, to nearest, ties to even.  A significand is
\* kept as its digits to the base Radix, most significant first.
Precision == 53
Radix == 2^10

\* digits * k + carry, put in front of the digits out
RECURSIVE BigTimes(_, _, _, _)
BigTimes(digits, k, carry, out) ==
    IF carry = 0 /\ digits = <<>> THEN out
    ELSE IF digits = <<>> THEN BigTimes(digits, k, carry \div Radix, <<carry % Radix>> \o out)
    ELSE BigTimes(SubSeq(digits, 1, Len(digits) - 1), k,
                  (digits[Len(digits)] * k + carry) \div Radix,
                  <<(digits[Len(digits)] * k + carry) % Radix>> \o out)

\* quotient and remainder of (r, digits) by k, after the quotient digits q
RECURSIVE BigDiv(_, _, _, _)
BigDiv(digits, k, r, q) ==
    IF digits = <<>> THEN [q |-> q, r |-> r]
    ELSE BigDiv(Tail(digits), k, (r * Radix + Head(digits)) % k,
                IF q = <<>> /\ (r * Radix + Head(digits)) \div k = 0 THEN <<>>
                ELSE Append(q, (r * Radix + Head(digits)) \div k))

\* the natural number of a few digits
RECURSIVE BigNat(_)
BigNat(digits) ==
    IF digits = <<>> THEN 0
    ELSE Radix * BigNat(SubSeq(digits, 1, Len(digits) - 1)) + digits[Len(digits)]

\* number of bits of a significand
BitLen(digits) ==
    10 * (Len(digits) - 1) + (CHOOSE b \in 1..10 : 2^(b - 1) <= digits[1] /\ digits[1] < 2^b)

\* digits / 2^n rounded to nearest, ties to even
RoundShift(digits, k) ==
    LET d == BigDiv(digits, k, 0, <<>>)
        up == 2 * d.r > k \/ (2 * d.r = k /\ d.q[Len(d.q)] % 2 = 1)
    IN  IF up THEN BigTimes(d.q, 1, 1, <<>>) ELSE d.q

\* n / 100 for 0 < n <= 100: the quotient of n * 2^s by 100, rounded, where
\* s makes the quotient a significand of Precision bits
Div100(n) ==
    LET k == CHOOSE j \in 0..7 : n * 2^j >= 100 /\ (j = 0 \/ n * 2^(j - 1) < 100)
        s == Precision - 1 + k
        pow == <<2^(s % 10)>> \o [i \in 1..(s \div 10) |-> 0]
    IN  [m |-> RoundShift(BigTimes(pow, n, 0, <<>>), 100), e |-> -s]

\* k * x for an integer k > 0
Times(k, x) ==
    LET product == BigTimes(x.m, k, 0, <<>>)
        n == BitLen(product) - Precision
    IN  IF n <= 0 THEN [m |-> product, e |-> x.e]
        ELSE [m |-> RoundShift(product, 2^n), e |-> x.e + n]

\* Math.ceil(x) for 0 < x < 2^Precision
MathCeil(x) ==
    LET whole == (-x.e) \div 10
        kept == SubSeq(x.m, 1, Len(x.m) - whole)
        dropped == SubSeq(x.m, Len(x.m) - whole + 1, Len(x.m))
        d == BigDiv(kept, 2^((-x.e) % 10), 0, <<>>)
        hasFraction == d.r # 0 \/ \E i \in 1..Len(dropped) : dropped[i] # 0
    IN  BigNat(d.q) + (IF hasFraction THEN 1 ELSE 0)

\* the prices and discount values of the model
PriceChoices == {7, 10, 25, 100}
DiscountValues == 1..100

\* Math.ceil(price * (discountValue / 100)), for the prices and discount
\* values of the model
MathCeilTimes ==
    [p \in PriceChoices, d \in DiscountValues |-> MathCeil(Times(p, Div100(d)))]

\* The product join of a cartItem row as the include loads it:
\* product with its promotionItem and that item's promotion.
ProductView(p) ==
    [ id |-> p,
      price |-> price[p],
      inventory |-> inventory[p],
      status |-> productStatus[p],
      promotionItem |-> promotionItem[p],
      promotion |-> IF promotionItem[p] = NoPromotion
                    THEN [isActive |-> FALSE, startDate |-> 0, endDate |-> 0, discountValue |-> 100]
                    ELSE promotion[promotionItem[p]] ]

\* isActive of the reduce/map callbacks of POST /order
PromotionApplies(product, now) ==
    /\ product.promotionItem # NoPromotion
    /\ now >= product.promotion.startDate
    /\ now <= product.promotion.endDate
    /\ product.promotion.isActive

\* Math.ceil(price * (discountValue / 100))
DiscountPrice(product) == MathCeilTimes[product.price, product.promotion.discountValue]

\* price used by validateAmount for one line
LinePrice(product, now) ==
    IF PromotionApplies(product, now) THEN DiscountPrice(product) ELSE product.price

\* validateAmount without the promotion branch: every line at product.price
ValidateAmountNoPromotion(lines, now) ==
    SumSeq([i \in 1..Len(lines) |-> lines[i].product.price * lines[i].quantity])

\* validateAmount: the reduce over cart.cartItems
ValidateAmount(lines, now) ==
    SumSeq([i \in 1..Len(lines) |-> LinePrice(lines[i].product, now) * lines[i].quantity])

\* CartModel.findOne({where: {memberId}}): the id of the member's first
\* Cart row, 0 for null
FindCart(m) == IF carts[m] = 0 THEN 0 ELSE 1

\* the cartItem rows of cart c of member m, in id order
CartItemsOf(m, c) == SelectSeq(cartItems[m], LAMBDA row : row.cartId = c)

\* cart.cartItems with the product include, as CartModel.findOne returns it
LoadCartItems(m) ==
    [i \in 1..Len(CartItemsOf(m, FindCart(m))) |->
        [ productId |-> CartItemsOf(m, FindCart(m))[i].productId,
          quantity |-> CartItemsOf(m, FindCart(m))[i].quantity,
          product |-> ProductView(CartItemsOf(m, FindCart(m))[i].productId) ]]

\* the orderItems array built by the map callback of POST /order
BuildOrderItems(lines, now) ==
    [i \in 1..Len(lines) |->
        [ productId |-> lines[i].productId,
          quantity |-> lines[i].quantity,
          price |-> lines[i].product.price,
          discountPrice |-> IF PromotionApplies(lines[i].product, now)
                            THEN DiscountPrice(lines[i].product) ELSE 0,
          hasDiscount |-> PromotionApplies(lines[i].product, now) ]]

\* value written by the inventory update of one cart line at checkout
DecrementValue(line) == line.product.inventory - line.quantity

\* the un-awaited ProductModel.update calls of the forEach of POST /order
CheckoutUpdates(lines) ==
    { [productId |-> lines[i].productId, value |-> DecrementValue(lines[i])] : i \in 1..Len(lines) }


\* order.orderItems with the product include, as OrderModel.findOne returns it
LoadOrderItems(oid) ==
    [i \in 1..Len(orders[oid].orderItems) |->
        [ productId |-> orders[oid].orderItems[i].productId,
          quantity |-> orders[oid].orderItems[i].quantity,
          product |-> ProductView(orders[oid].orderItems[i].productId) ]]

\* a restore that writes the inventory back without the item's quantity
RestoreValueNoQuantity(item) == item.product.inventory

\* value written by the inventory update of one order item at cancellation
RestoreValue(item) == item.product.inventory + item.quantity

\* the un-awaited ProductModel.update calls of the forEach of the cancel paths
CancelUpdates(items) ==
    { [productId |-> items[i].productId, value |-> RestoreValue(items[i])] : i \in 1..Len(items) }

\* CartItemModel.findOne({cartId, productId}): the first matching row of
\* cart c of member m, NoCartItem for null
NoCartItem == [id |-> 0, cartId |-> 0, productId |-> "none", quantity |-> 0]

FindCartItem(m, c, p) ==
    LET rows == SelectSeq(CartItemsOf(m, c), LAMBDA row : row.productId = p)
    IN  IF rows = <<>> THEN NoCartItem ELSE Head(rows)

\* UPDATE cartItem SET quantity = q WHERE id = id
UpdateCartItem(m, id, q) ==
    [cartItems EXCEPT ![m] =
        [i \in 1..Len(@) |-> IF @[i].id = id THEN [@[i] EXCEPT !.quantity = q] ELSE @[i]]]

----------------------------------------------------------------------------
(* Requests *)

IdleReq ==
    [ op |-> "idle", pc |-> "idle", member |-> "m1", totalAmount |-> 0,
      orderId |-> 0, status |-> "created", productId |-> "p1", quantity |-> 0,
      lines |-> <<>>, updates |-> {}, cartUpdates |-> {},
      resp |-> NoResponse, correctAmount |-> 0, date |-> 0, body |-> NoBody,
      cartId |-> 0, cartItem |-> NoCartItem, inventory |-> 0, tasks |-> <<>> ]

\* what is left of a request once the handler has responded
Respond(r, code, amount, updates, cartUpdates) ==
    [ req[r] EXCEPT !.pc = "done", !.lines = <<>>, !.resp = code, !.correctAmount = amount,
                    !.updates = updates, !.cartUpdates = cartUpdates, !.date = NoDate,
                    !.cartId = 0, !.cartItem = NoCartItem, !.inventory = 0 ]

\* the handler has responded and none of its writes is outstanding
Finished(r) ==
    /\ req[r].pc = "done" /\ req[r].updates = {} /\ req[r].cartUpdates = {}
    /\ \A i \in 1..Len(req[r].tasks) : req[r].tasks[i].pc = "done"

Free(r) == req[r].op = "idle" \/ Finished(r)

\* a request takes the first idle slot, or the first finished one when none is idle
CanStart(r) ==
    IF \E q \in Requests : req[q].op = "idle"
    THEN req[r].op = "idle" /\ \A q \in Requests : q < r => req[q].op # "idle"
    ELSE Finished(r) /\ \A q \in Requests : q < r => ~Finished(q)

\* no request is in flight and no write is outstanding
Quiescent == \A r \in Requests : Free(r)

\* a storage call may fail (InternalError) while the fault budget lasts
CanFail == faults < MaxFaults

\* the result of GET /cart: one entry per cart line with price, discountPrice
\* (hasDiscount FALSE for null) and quantity
CartView(m) ==
    [i \in 1..Len(CartItemsOf(m, FindCart(m))) |->
        LET product == ProductView(CartItemsOf(m, FindCart(m))[i].productId)
            isWithinRange == /\ product.promotionItem # NoPromotion
                             /\ today >= product.promotion.startDate
                             /\ today <= product.promotion.endDate
            hasDiscount == /\ product.promotionItem # NoPromotion
                           /\ product.promotion.isActive
                           /\ isWithinRange
        IN  [ productId |-> product.id,
              price |-> product.price,
              hasDiscount |-> hasDiscount,
              discountPrice |-> IF hasDiscount THEN DiscountPrice(product) ELSE 0,
              quantity |-> CartItemsOf(m, FindCart(m))[i].quantity,
              inventory |-> product.inventory ]]

\* the total a client adds up from the cart view it was given
ClientTotal(m) ==
    SumSeq([i \in 1..Len(CartView(m)) |->
        (IF CartView(m)[i].hasDiscount THEN CartView(m)[i].discountPrice ELSE CartView(m)[i].price)
            * CartView(m)[i].quantity])

----------------------------------------------------------------------------
(* POST /order *)

StartCheckout(r, m, total) ==
    /\ CanStart(r)
    /\ started' = started + 1
    /\ req' = [req EXCEPT ![r] = [IdleReq EXCEPT !.op = "checkout", !.pc = "load",
                                                  !.member = m, !.totalAmount = total]]
    /\ UNCHANGED <<db, today, faults, hist, cron>>

\* CartModel.findOne returns; validateAmount is computed and compared
CheckoutLoad(r) ==
    /\ req[r].op = "checkout" /\ req[r].pc = "load"
    /\ LET m == req[r].member
           lines == LoadCartItems(m)
           amount == ValidateAmount(lines, today)
       IN  IF carts[m] = 0
           THEN \* cart!.cartItems throws on null
                req' = [req EXCEPT ![r] = Respond(r, INTERNAL_SERVER_ERROR, 0, {}, {})]
           ELSE IF req[r].totalAmount # amount
           THEN req' = [req EXCEPT ![r] = Respond(r, BAD_REQUEST, amount, {}, {})]
           ELSE \* orderCreatedAt: new Date() is taken when OrderModel.create is called
                req' = [req EXCEPT ![r].pc = "create", ![r].lines = lines, ![r].date = today,
                                   ![r].cartId = FindCart(m)]
    /\ UNCHANGED <<db, today, faults, started, hist, cron>>

\* OrderModel.create
CheckoutCreate(r) ==
    /\ req[r].op = "checkout" /\ req[r].pc = "create"
    /\ orders' = Append(orders, [ memberId |-> req[r].member, status |-> "created",
                                  totalAmount |-> req[r].totalAmount,
                                  orderCreatedAt |-> req[r].date,
                                  orderConfirmedAt |-> NoDate,
                                  orderShippedAt |-> NoDate,
                                  orderDeliveredAt |-> NoDate,
                                  orderCanceledAt |-> NoDate,
                                  orderItems |-> <<>> ])
    /\ req' = [req EXCEPT ![r].pc = "bulkCreate", ![r].orderId = Len(orders) + 1]
    /\ UNCHANGED <<price, inventory, productStatus, promotionItem, promotion, carts, cartItems, today, faults, started, hist, cron>>

\* OrderItemModel.bulkCreate
CheckoutBulkCreate(r) ==
    /\ req[r].op = "checkout" /\ req[r].pc = "bulkCreate"
    /\ orders' = [orders EXCEPT ![req[r].orderId].orderItems = BuildOrderItems(req[r].lines, today)]
    /\ req' = [req EXCEPT ![r].pc = "destroy"]
    /\ UNCHANGED <<price, inventory, productStatus, promotionItem, promotion, carts, cartItems, today, faults, started, hist, cron>>

\* CartItemModel.destroy, then the forEach starts one update per line
\* without awaiting it, and the handler responds 201
CheckoutDestroy(r) ==
    /\ req[r].op = "checkout" /\ req[r].pc = "destroy"
    /\ cartItems' = [cartItems EXCEPT ![req[r].member] = SelectSeq(@, LAMBDA row : row.cartId # req[r].cartId)]
    /\ req' = [req EXCEPT ![r] = Respond(r, CREATED, 0, CheckoutUpdates(req[r].lines), {})]
    /\ UNCHANGED <<price, inventory, productStatus, promotionItem, promotion, carts, orders, today, faults, started, hist, cron>>

\* a storage call of the try block rejects: the catch responds 500
CheckoutFail(r) ==
    /\ req[r].op = "checkout" /\ req[r].pc \in {"create", "bulkCreate", "destroy"}
    /\ CanFail
    /\ faults' = faults + 1
    /\ req' = [req EXCEPT ![r] = Respond(r, INTERNAL_SERVER_ERROR, 0, {}, {})]
    /\ UNCHANGED <<db, today, started, hist, cron>>

----------------------------------------------------------------------------
(* PATCH /order/:id *)

\* an update of the order that also deletes the order's items
OrderUpdateStatusOnly(order, status, date) ==
    [ order EXCEPT !.status = status ]

OrderUpdateDropItems(order, status, date) ==
    [ order EXCEPT !.status = status, !.orderItems = <<>> ]

\* order.update(updateData): the status and the timestamp column the switch
\* picked for it, set to the new Date() taken before the call
OrderUpdate(order, status, date) ==
    [ order EXCEPT !.status = status,
                   !.orderConfirmedAt = IF status = "confirmed" THEN date ELSE @,
                   !.orderShippedAt = IF status = "shipped" THEN date ELSE @,
                   !.orderDeliveredAt = IF status = "delivered" THEN date ELSE @,
                   !.orderCanceledAt = IF status = "canceled" THEN date ELSE @ ]

\* OrderModel.findOne({where: {id}}) finds a row: ownership is not part of the query
FindOrderAnyMember(m, oid) == oid \in 1..Len(orders)

\* OrderModel.findOne({where: {id, memberId}}) finds a row
FindOrder(m, oid) == oid \in 1..Len(orders) /\ orders[oid].memberId = m

StartCancel(r, m, oid) ==
    /\ CanStart(r)
    /\ started' = started + 1
    /\ req' = [req EXCEPT ![r] = [IdleReq EXCEPT !.op = "cancel", !.pc = "find",
                                                  !.member = m, !.orderId = oid,
                                                  !.status = "canceled"]]
    /\ UNCHANGED <<db, today, faults, hist, cron>>

\* OrderModel.findOne({id, memberId}) with the order items and their products
CancelFind(r) ==
    /\ req[r].op = "cancel" /\ req[r].pc = "find"
    /\ LET oid == req[r].orderId IN
       IF FindOrder(req[r].member, oid)
       THEN req' = [req EXCEPT ![r].pc = "update", ![r].lines = LoadOrderItems(oid), ![r].date = today]
       ELSE req' = [req EXCEPT ![r] = Respond(r, BAD_REQUEST, 0, {}, {})]
    /\ UNCHANGED <<db, today, faults, started, hist, cron>>

\* order.update({status: "canceled"}), then the forEach starts one update
\* per order item without awaiting it, and the handler responds 204
CancelUpdate(r) ==
    /\ req[r].op = "cancel" /\ req[r].pc = "update"
    /\ orders' = [orders EXCEPT ![req[r].orderId] = OrderUpdate(@, "canceled", req[r].date)]
    /\ req' = [req EXCEPT ![r] = Respond(r, NO_CONTENT, 0, CancelUpdates(req[r].lines), {})]
    /\ UNCHANGED <<price, inventory, productStatus, promotionItem, promotion, carts, cartItems, today, faults, started, hist, cron>>

----------------------------------------------------------------------------
(* GET /order/:id *)

\* orderTimeStamp: the created entry, then one entry per timestamp that is set
OrderTimeStampOfStatus(order) ==
    <<[content |-> "created", timestamp |-> order.orderCreatedAt]>>
        \o (IF order.status = "created" THEN <<>>
            ELSE <<[content |-> order.status,
                    timestamp |-> CASE order.status = "confirmed" -> order.orderConfirmedAt
                                    [] order.status = "shipped" -> order.orderShippedAt
                                    [] order.status = "delivered" -> order.orderDeliveredAt
                                    [] OTHER -> order.orderCanceledAt]>>)

OrderTimeStamp(order) ==
    LET statusMapping == << [content |-> "confirmed", timestamp |-> order.orderConfirmedAt],
                            [content |-> "shipped", timestamp |-> order.orderShippedAt],
                            [content |-> "delivered", timestamp |-> order.orderDeliveredAt],
                            [content |-> "canceled", timestamp |-> order.orderCanceledAt] >>
    IN  <<[content |-> "created", timestamp |-> order.orderCreatedAt]>>
            \o SelectSeq(statusMapping, LAMBDA e : e.timestamp # NoDate)

\* the result of GET /order/:id
OrderResult(oid) ==
    [ id |-> oid,
      status |-> orders[oid].status,
      orderTimeStamp |-> OrderTimeStamp(orders[oid]),
      totalAmount |-> orders[oid].totalAmount,
      orderItems |-> [i \in 1..Len(orders[oid].orderItems) |->
                        [ productId |-> orders[oid].orderItems[i].productId,
                          price |-> orders[oid].orderItems[i].price,
                          hasDiscount |-> orders[oid].orderItems[i].hasDiscount,
                          discountPrice |-> orders[oid].orderItems[i].discountPrice,
                          quantity |-> orders[oid].orderItems[i].quantity ]] ]

StartView(r, m, oid) ==
    /\ CanStart(r)
    /\ started' = started + 1
    /\ req' = [req EXCEPT ![r] = [IdleReq EXCEPT !.op = "view", !.pc = "find",
                                                  !.member = m, !.orderId = oid]]
    /\ UNCHANGED <<db, today, faults, hist, cron>>

\* OrderModel.findOne({id, memberId}) returns; the handler responds
ViewFind(r) ==
    /\ req[r].op = "view" /\ req[r].pc = "find"
    /\ LET oid == req[r].orderId IN
       IF FindOrder(req[r].member, oid)
       THEN req' = [req EXCEPT ![r] = [Respond(r, OK, 0, {}, {}) EXCEPT !.body = OrderResult(oid)]]
       ELSE req' = [req EXCEPT ![r] = Respond(r, BAD_REQUEST, 0, {}, {})]
    /\ UNCHANGED <<db, today, faults, started, hist, cron>>

----------------------------------------------------------------------------
(* GET /admin/order/:id *)

StartAdminView(r, oid) ==
    /\ CanStart(r)
    /\ started' = started + 1
    /\ req' = [req EXCEPT ![r] = [IdleReq EXCEPT !.op = "adminView", !.pc = "find", !.orderId = oid]]
    /\ UNCHANGED <<db, today, faults, hist, cron>>

\* OrderModel.findByPk(orderId) returns; the handler responds
AdminViewFind(r) ==
    /\ req[r].op = "adminView" /\ req[r].pc = "find"
    /\ LET oid == req[r].orderId IN
       IF oid \in 1..Len(orders)
       THEN req' = [req EXCEPT ![r] = [Respond(r, OK, 0, {}, {}) EXCEPT !.body = OrderResult(oid)]]
       ELSE req' = [req EXCEPT ![r] = Respond(r, BAD_REQUEST, 0, {}, {})]
    /\ UNCHANGED <<db, today, faults, started, hist, cron>>

----------------------------------------------------------------------------
(* PATCH /admin/order/:id *)

StartAdminPatch(r, oid, status) ==
    /\ CanStart(r)
    /\ started' = started + 1
    /\ req' = [req EXCEPT ![r] = [IdleReq EXCEPT !.op = "adminPatch", !.pc = "find",
                                                  !.orderId = oid, !.status = status]]
    /\ UNCHANGED <<db, today, faults, hist, cron>>

\* OrderModel.findByPk with the order items and their products
AdminFind(r) ==
    /\ req[r].op = "adminPatch" /\ req[r].pc = "find"
    /\ LET oid == req[r].orderId IN
       IF oid \in 1..Len(orders)
       THEN req' = [req EXCEPT ![r].pc = "update", ![r].lines = LoadOrderItems(oid), ![r].date = today]
       ELSE req' = [req EXCEPT ![r] = Respond(r, BAD_REQUEST, 0, {}, {})]
    /\ UNCHANGED <<db, today, faults, started, hist, cron>>

\* order.update(updateData); for "canceled" the forEach starts the inventory
\* updates without awaiting them; the handler responds 204
AdminUpdate(r) ==
    /\ req[r].op = "adminPatch" /\ req[r].pc = "update"
    /\ orders' = [orders EXCEPT ![req[r].orderId] = OrderUpdate(@, req[r].status, req[r].date)]
    /\ req' = [req EXCEPT ![r] = Respond(r, NO_CONTENT, 0,
                   IF req[r].status = "canceled" THEN CancelUpdates(req[r].lines) ELSE {}, {})]
    /\ UNCHANGED <<price, inventory, productStatus, promotionItem, promotion, carts, cartItems, today, faults, started, hist, cron>>

\* order.update rejects in either PATCH handler: the catch responds 500
OrderUpdateFail(r) ==
    /\ req[r].op \in {"cancel", "adminPatch"} /\ req[r].pc = "update"
    /\ CanFail
    /\ faults' = faults + 1
    /\ req' = [req EXCEPT ![r] = Respond(r, INTERNAL_SERVER_ERROR, 0, {}, {})]
    /\ UNCHANGED <<db, today, started, hist, cron>>

----------------------------------------------------------------------------
(* PATCH /cart *)

StartPatchCart(r, m, p, q) ==
    /\ CanStart(r)
    /\ started' = started + 1
    /\ req' = [req EXCEPT ![r] = [IdleReq EXCEPT !.op = "patchCart", !.pc = "find",
                                                  !.member = m, !.productId = p,
                                                  !.quantity = q]]
    /\ UNCHANGED <<db, today, faults, hist, cron>>

\* CartModel.findOne and CartItemModel.findOne; cartItem?.update is started
\* without being awaited and the handler responds 204
PatchCartFind(r) ==
    /\ req[r].op = "patchCart" /\ req[r].pc = "find"
    /\ LET m == req[r].member IN
       IF carts[m] = 0
       THEN \* cart!.id throws on null
            req' = [req EXCEPT ![r] = Respond(r, INTERNAL_SERVER_ERROR, 0, {}, {})]
       ELSE IF FindCartItem(m, FindCart(m), req[r].productId) = NoCartItem
       THEN req' = [req EXCEPT ![r] = Respond(r, NO_CONTENT, 0, {}, {})]
       ELSE req' = [req EXCEPT ![r] = Respond(r, NO_CONTENT, 0, {},
                        {[member |-> m, id |-> FindCartItem(m, FindCart(m), req[r].productId).id,
                          quantity |-> req[r].quantity]})]
    /\ UNCHANGED <<db, today, faults, started, hist, cron>>

\* UPDATE cartItem SET quantity WHERE id = the row found; no row is left
\* to update once a checkout has destroyed it
CartUpdateLands(r, u) ==
    /\ u \in req[r].cartUpdates
    /\ cartItems' = UpdateCartItem(u.member, u.id, u.quantity)
    /\ req' = [req EXCEPT ![r].cartUpdates = @ \ {u}]
    /\ UNCHANGED <<price, inventory, productStatus, promotionItem, promotion, carts, orders, today, faults, started, hist, cron>>

----------------------------------------------------------------------------
(* POST /cart *)

\* the id AUTO_INCREMENT gives a new cartItem row: one that no row has and
\* no request in flight holds
NewCartItemId ==
    LET used == UNION { {cartItems[m][i].id : i \in 1..Len(cartItems[m])} : m \in Members }
                  \cup {req[r].cartItem.id : r \in Requests}
                  \cup UNION { {u.id : u \in req[r].cartUpdates} : r \in Requests }
                  \cup UNION { {req[r].tasks[i].cartItem.id : i \in 1..Len(req[r].tasks)} : r \in Requests }
    IN  1 + CHOOSE n \in used \cup {0} : \A k \in used : k <= n

\* CartItemModel.create({cartId, productId, quantity})
CreateCartItem(m, c, p, q) ==
    [cartItems EXCEPT ![m] = Append(@, [id |-> NewCartItemId, cartId |-> c, productId |-> p, quantity |-> q])]

\* a new quantity that drops what the line already holds
ReplacedQuantity(cartItem, quantity) == quantity

\* cartItem.quantity + quantity
RaisedQuantity(cartItem, quantity) == cartItem.quantity + quantity

StartAddItem(r, m, p, q) ==
    /\ CanStart(r)
    /\ started' = started + 1
    /\ req' = [req EXCEPT ![r] = [IdleReq EXCEPT !.op = "addItem", !.pc = "findCart",
                                                  !.member = m, !.productId = p, !.quantity = q]]
    /\ UNCHANGED <<db, today, faults, hist, cron>>

\* CartModel.findOne({memberId})
AddFindCart(r) ==
    /\ req[r].op = "addItem" /\ req[r].pc = "findCart"
    /\ req' = IF FindCart(req[r].member) = 0
              THEN [req EXCEPT ![r].pc = "createCart"]
              ELSE [req EXCEPT ![r].pc = "findProduct", ![r].cartId = FindCart(req[r].member)]
    /\ UNCHANGED <<db, today, faults, started, hist, cron>>

\* CartModel.create({memberId})
AddCreateCart(r) ==
    /\ req[r].op = "addItem" /\ req[r].pc = "createCart"
    /\ carts' = [carts EXCEPT ![req[r].member] = @ + 1]
    /\ req' = [req EXCEPT ![r].pc = "findProduct", ![r].cartId = carts[req[r].member] + 1]
    /\ UNCHANGED <<price, inventory, productStatus, promotionItem, promotion, cartItems, orders, today, faults, started, hist, cron>>

\* ProductModel.findByPk(productId): missing or not listed is answered 400
AddFindProduct(r) ==
    /\ req[r].op = "addItem" /\ req[r].pc = "findProduct"
    /\ req' = IF req[r].productId \notin Products \/ productStatus[req[r].productId] # "1"
              THEN [req EXCEPT ![r] = Respond(r, BAD_REQUEST, 0, {}, {})]
              ELSE [req EXCEPT ![r].pc = "findItem", ![r].inventory = inventory[req[r].productId]]
    /\ UNCHANGED <<db, today, faults, started, hist, cron>>

\* CartItemModel.findOne({cartId, productId}) and the inventory checks
AddFindItem(r) ==
    /\ req[r].op = "addItem" /\ req[r].pc = "findItem"
    /\ LET cartItem == FindCartItem(req[r].member, req[r].cartId, req[r].productId) IN
       req' = IF cartItem # NoCartItem
              THEN IF RaisedQuantity(cartItem, req[r].quantity) > req[r].inventory
                   THEN [req EXCEPT ![r] = Respond(r, BAD_REQUEST, 0, {}, {})]
                   ELSE [req EXCEPT ![r].pc = "update", ![r].cartItem = cartItem]
              ELSE IF req[r].quantity > req[r].inventory
                   THEN [req EXCEPT ![r] = Respond(r, BAD_REQUEST, 0, {}, {})]
                   ELSE [req EXCEPT ![r].pc = "create"]
    /\ UNCHANGED <<db, today, faults, started, hist, cron>>

\* cartItem.update({quantity: cartItem.quantity + quantity}), then 201
AddUpdate(r) ==
    /\ req[r].op = "addItem" /\ req[r].pc = "update"
    /\ cartItems' = UpdateCartItem(req[r].member, req[r].cartItem.id,
                                   RaisedQuantity(req[r].cartItem, req[r].quantity))
    /\ req' = [req EXCEPT ![r] = Respond(r, CREATED, 0, {}, {})]
    /\ UNCHANGED <<price, inventory, productStatus, promotionItem, promotion, carts, orders, today, faults, started, hist, cron>>

\* CartItemModel.create({cartId, productId, quantity}), then 201
AddCreate(r) ==
    /\ req[r].op = "addItem" /\ req[r].pc = "create"
    /\ cartItems' = CreateCartItem(req[r].member, req[r].cartId, req[r].productId, req[r].quantity)
    /\ req' = [req EXCEPT ![r] = Respond(r, CREATED, 0, {}, {})]
    /\ UNCHANGED <<price, inventory, productStatus, promotionItem, promotion, carts, orders, today, faults, started, hist, cron>>

\* a write of the try block rejects: the catch responds 500
AddFail(r) ==
    /\ req[r].op = "addItem" /\ req[r].pc \in {"createCart", "update", "create"}
    /\ CanFail
    /\ faults' = faults + 1
    /\ req' = [req EXCEPT ![r] = Respond(r, INTERNAL_SERVER_ERROR, 0, {}, {})]
    /\ UNCHANGED <<db, today, started, hist, cron>>

----------------------------------------------------------------------------
(* DELETE /cart/:id *)

StartRemoveItem(r, m, p) ==
    /\ CanStart(r)
    /\ started' = started + 1
    /\ req' = [req EXCEPT ![r] = [IdleReq EXCEPT !.op = "removeItem", !.pc = "findCart",
                                                  !.member = m, !.productId = p]]
    /\ UNCHANGED <<db, today, faults, hist, cron>>

\* CartModel.findOne({memberId}); cart!.id throws on null
RemoveFindCart(r) ==
    /\ req[r].op = "removeItem" /\ req[r].pc = "findCart"
    /\ req' = IF FindCart(req[r].member) = 0
              THEN [req EXCEPT ![r] = Respond(r, INTERNAL_SERVER_ERROR, 0, {}, {})]
              ELSE [req EXCEPT ![r].pc = "destroy", ![r].cartId = FindCart(req[r].member)]
    /\ UNCHANGED <<db, today, faults, started, hist, cron>>

\* CartItemModel.destroy({where: {cartId, productId}}), then 204
RemoveDestroy(r) ==
    /\ req[r].op = "removeItem" /\ req[r].pc = "destroy"
    /\ cartItems' = [cartItems EXCEPT ![req[r].member] =
                        SelectSeq(@, LAMBDA row : ~(row.cartId = req[r].cartId /\ row.productId = req[r].productId))]
    /\ req' = [req EXCEPT ![r] = Respond(r, NO_CONTENT, 0, {}, {})]
    /\ UNCHANGED <<price, inventory, productStatus, promotionItem, promotion, carts, orders, today, faults, started, hist, cron>>

----------------------------------------------------------------------------
(* GET /cart *)

\* the result built from the second findOne, whose include has the product
\* but not its promotionItem: no entry gets a discountPrice
CartViewNoPromotion(m) ==
    [i \in 1..Len(CartView(m)) |-> [CartView(m)[i] EXCEPT !.hasDiscount = FALSE, !.discountPrice = 0]]

StartGetCart(r, m) ==
    /\ CanStart(r)
    /\ started' = started + 1
    /\ req' = [req EXCEPT ![r] = [IdleReq EXCEPT !.op = "getCart", !.pc = "findCart", !.member = m]]
    /\ UNCHANGED <<db, today, faults, hist, cron>>

\* CartModel.findOne({memberId}) with the cartItems include; with a cart the
\* handler responds 200 with the result
GetFindCart(r) ==
    /\ req[r].op = "getCart" /\ req[r].pc = "findCart"
    /\ req' = IF FindCart(req[r].member) = 0
              THEN [req EXCEPT ![r].pc = "createCart"]
              ELSE [req EXCEPT ![r] = [Respond(r, OK, 0, {}, {}) EXCEPT
                                          !.body = [cartItems |-> CartView(req[r].member)]]]
    /\ UNCHANGED <<db, today, faults, started, hist, cron>>

\* CartModel.create({memberId})
GetCreateCart(r) ==
    /\ req[r].op = "getCart" /\ req[r].pc = "createCart"
    /\ carts' = [carts EXCEPT ![req[r].member] = @ + 1]
    /\ req' = [req EXCEPT ![r].pc = "findAgain"]
    /\ UNCHANGED <<price, inventory, productStatus, promotionItem, promotion, cartItems, orders, today, faults, started, hist, cron>>

\* the second CartModel.findOne({memberId}), then 200 with the result
GetFindAgain(r) ==
    /\ req[r].op = "getCart" /\ req[r].pc = "findAgain"
    /\ req' = [req EXCEPT ![r] = [Respond(r, OK, 0, {}, {}) EXCEPT
                                      !.body = [cartItems |-> CartViewNoPromotion(req[r].member)]]]
    /\ UNCHANGED <<db, today, faults, started, hist, cron>>

\* CartModel.create or the second findOne rejects: the catch responds 500
GetFail(r) ==
    /\ req[r].op = "getCart" /\ req[r].pc \in {"createCart", "findAgain"}
    /\ CanFail
    /\ faults' = faults + 1
    /\ req' = [req EXCEPT ![r] = Respond(r, INTERNAL_SERVER_ERROR, 0, {}, {})]
    /\ UNCHANGED <<db, today, started, hist, cron>>

----------------------------------------------------------------------------
(* GET /cart/check *)

\* the strings the loop pushes for one cart item, given what
\* ProductModel.findByPk(item.productId) returned
CheckMessages(item) ==
    IF item.productId \notin Products
    THEN <<[id |-> item.id, about |-> "notFound"]>>
    ELSE (IF productStatus[item.productId] = "0"
          THEN <<[id |-> item.id, about |-> "unlisted"]>> ELSE <<>>)
         \o
         (IF item.quantity > inventory[item.productId]
          THEN <<[id |-> item.id, about |-> "overInventory"]>> ELSE <<>>)

\* 400 with the messages when there are any, else 200 with null
CheckResponse(r, result) ==
    [ Respond(r, IF Len(result) > 0 THEN BAD_REQUEST ELSE OK, 0, {}, {}) EXCEPT
          !.body = [result |-> result] ]

StartCheckCart(r, m) ==
    /\ CanStart(r)
    /\ started' = started + 1
    /\ req' = [req EXCEPT ![r] = [IdleReq EXCEPT !.op = "checkCart", !.pc = "findCart", !.member = m]]
    /\ UNCHANGED <<db, today, faults, hist, cron>>

\* CartModel.findOne({memberId}) with the cartItems include; without a cart
\* or without items the loop does nothing and the handler responds 200
CheckFindCart(r) ==
    /\ req[r].op = "checkCart" /\ req[r].pc = "findCart"
    /\ LET items == CartItemsOf(req[r].member, FindCart(req[r].member)) IN
       req' = IF items = <<>>
              THEN [req EXCEPT ![r] = CheckResponse(r, <<>>)]
              ELSE [req EXCEPT ![r].pc = "findProduct", ![r].lines = items,
                               ![r].body = [result |-> <<>>]]
    /\ UNCHANGED <<db, today, faults, started, hist, cron>>

\* ProductModel.findByPk(item.productId) of one pass of the loop; after the
\* last item the handler responds
CheckFindProduct(r) ==
    /\ req[r].op = "checkCart" /\ req[r].pc = "findProduct"
    /\ LET result == req[r].body.result \o CheckMessages(Head(req[r].lines)) IN
       req' = IF Tail(req[r].lines) = <<>>
              THEN [req EXCEPT ![r] = CheckResponse(r, result)]
              ELSE [req EXCEPT ![r].lines = Tail(@), ![r].body = [result |-> result]]
    /\ UNCHANGED <<db, today, faults, started, hist, cron>>

\* a findByPk of the loop rejects: the catch responds 500
CheckFail(r) ==
    /\ req[r].op = "checkCart" /\ req[r].pc = "findProduct"
    /\ CanFail
    /\ faults' = faults + 1
    /\ req' = [req EXCEPT ![r] = Respond(r, INTERNAL_SERVER_ERROR, 0, {}, {})]
    /\ UNCHANGED <<db, today, started, hist, cron>>

----------------------------------------------------------------------------
(* POST /member/login with a guest cart *)

\* an item of the guestCart of the request body
Line(p, q) == [productId |-> p, quantity |-> q]

\* the callbacks data.guestCart.forEach(async ...) starts, none of them awaited
MergeTasks(guestCart, c) ==
    [i \in 1..Len(guestCart) |->
        [ pc |-> "find", cartId |-> c, productId |-> guestCart[i].productId,
          quantity |-> guestCart[i].quantity, cartItem |-> NoCartItem ]]

StartLogin(r, m, guestCart) ==
    /\ CanStart(r)
    /\ started' = started + 1
    /\ req' = [req EXCEPT ![r] = [IdleReq EXCEPT !.op = "login", !.pc = "findCart",
                                                  !.member = m, !.lines = guestCart]]
    /\ UNCHANGED <<db, today, faults, hist, cron>>

\* CartModel.findOne({memberId}); with a cart the callbacks are started and
\* the handler responds 200
LoginFindCart(r) ==
    /\ req[r].op = "login" /\ req[r].pc = "findCart"
    /\ req' = IF FindCart(req[r].member) = 0
              THEN [req EXCEPT ![r].pc = "createCart"]
              ELSE [req EXCEPT ![r] = [Respond(r, OK, 0, {}, {}) EXCEPT
                                          !.tasks = MergeTasks(req[r].lines, FindCart(req[r].member))]]
    /\ UNCHANGED <<db, today, faults, started, hist, cron>>

\* CartModel.create({memberId}); the callbacks are started and the handler
\* responds 200
LoginCreateCart(r) ==
    /\ req[r].op = "login" /\ req[r].pc = "createCart"
    /\ carts' = [carts EXCEPT ![req[r].member] = @ + 1]
    /\ req' = [req EXCEPT ![r] = [Respond(r, OK, 0, {}, {}) EXCEPT
                                      !.tasks = MergeTasks(req[r].lines, carts[req[r].member] + 1)]]
    /\ UNCHANGED <<price, inventory, productStatus, promotionItem, promotion, cartItems, orders, today, faults, started, hist, cron>>

\* CartItemModel.findOne({cartId, productId}) of one callback
MergeFind(r, i) ==
    /\ req[r].tasks[i].pc = "find"
    /\ LET cartItem == FindCartItem(req[r].member, req[r].tasks[i].cartId, req[r].tasks[i].productId) IN
       req' = IF cartItem # NoCartItem
              THEN [req EXCEPT ![r].tasks[i].pc = "update", ![r].tasks[i].cartItem = cartItem]
              ELSE [req EXCEPT ![r].tasks[i].pc = "create"]
    /\ UNCHANGED <<db, today, faults, started, hist, cron>>

\* cartItem.update({quantity: cartItem.quantity + item.quantity}) of one callback
MergeUpdate(r, i) ==
    /\ req[r].tasks[i].pc = "update"
    /\ cartItems' = UpdateCartItem(req[r].member, req[r].tasks[i].cartItem.id,
                                   req[r].tasks[i].cartItem.quantity + req[r].tasks[i].quantity)
    /\ req' = [req EXCEPT ![r].tasks[i].pc = "done", ![r].tasks[i].cartItem = NoCartItem]
    /\ UNCHANGED <<price, inventory, productStatus, promotionItem, promotion, carts, orders, today, faults, started, hist, cron>>

\* CartItemModel.create({cartId, productId, quantity}) of one callback
MergeCreate(r, i) ==
    /\ req[r].tasks[i].pc = "create"
    /\ cartItems' = CreateCartItem(req[r].member, req[r].tasks[i].cartId,
                                   req[r].tasks[i].productId, req[r].tasks[i].quantity)
    /\ req' = [req EXCEPT ![r].tasks[i].pc = "done"]
    /\ UNCHANGED <<price, inventory, productStatus, promotionItem, promotion, carts, orders, today, faults, started, hist, cron>>

\* a storage call of the login handler or of a callback rejects: the catch
\* responds 500, a callback's rejection is caught by nothing
LoginFail(r) ==
    /\ req[r].op = "login" /\ req[r].pc = "createCart"
    /\ CanFail
    /\ faults' = faults + 1
    /\ req' = [req EXCEPT ![r] = Respond(r, INTERNAL_SERVER_ERROR, 0, {}, {})]
    /\ UNCHANGED <<db, today, started, hist, cron>>

MergeFail(r, i) ==
    /\ req[r].tasks[i].pc \in {"update", "create"}
    /\ CanFail
    /\ faults' = faults + 1
    /\ req' = [req EXCEPT ![r].tasks[i].pc = "done", ![r].tasks[i].cartItem = NoCartItem]
    /\ UNCHANGED <<db, today, started, hist, cron>>

----------------------------------------------------------------------------
(* The un-awaited ProductModel.update calls *)

\* UPDATE product SET inventory = value WHERE id = productId
UpdateLands(r, u) ==
    /\ u \in req[r].updates
    /\ inventory' = [inventory EXCEPT ![u.productId] = u.value]
    /\ req' = [req EXCEPT ![r].updates = @ \ {u}]
    /\ UNCHANGED <<price, productStatus, promotionItem, promotion, carts, cartItems, orders, today, faults, started, hist, cron>>

\* the update rejects; nothing awaits or catches it
UpdateFails(r, u) ==
    /\ u \in req[r].updates
    /\ CanFail
    /\ faults' = faults + 1
    /\ req' = [req EXCEPT ![r].updates = @ \ {u}]
    /\ UNCHANGED <<db, today, started, hist, cron>>

----------------------------------------------------------------------------
(* cron.schedule("0 0 * * *"): the daily cleanup *)

\* the cron callback before its first run
IdleSweep ==
    [ pc |-> "idle", pass |-> 0, now |-> NoDate, lastNow |-> NoDate,
      promotions |-> <<>>, resets |-> <<>>, logged |-> 0, unhandled |-> 0,
      promotion0 |-> <<>>, promotionItem0 |-> <<>>, passwordReset0 |-> {} ]

\* PromotionModel.findAll({endDate < currentDate, isActive = true})
EndedPromotions(now) == {id \in DOMAIN promotion : promotion[id].endDate < now}

ExpiredPromotions(now) ==
    {id \in DOMAIN promotion : promotion[id].endDate < now /\ promotion[id].isActive}

\* PasswordResetModel.findAll({expires < currentDate})
ExpiredPasswordResets(now) == {t \in passwordReset : t.expires < now}

\* PromotionItemModel.destroy({where: {promotionId: id}})
DestroyNoPromotionItems(id) == promotionItem

DestroyPromotionItems(id) ==
    [p \in DOMAIN promotionItem |-> IF promotionItem[p] = id THEN NoPromotion ELSE promotionItem[p]]

\* every callback the pass started has run to its end or has rejected
CallbacksSettled ==
    /\ \A id \in DOMAIN sweep.promotions : sweep.promotions[id] \in {"done", "failed"}
    /\ \A t \in DOMAIN sweep.resets : sweep.resets[t] \in {"done", "failed"}

\* the pass has finished all its work
SweepFinished == sweep.pc = "done" /\ CallbacksSettled

\* the schedule fires; currentDate = new Date(). The passes are a day
\* apart: the one before has finished
SweepStart ==
    /\ sweep.pc = "idle" \/ SweepFinished
    /\ sweep.pass < MaxSweeps
    /\ sweep' = [ pc |-> "findPromotions", pass |-> sweep.pass + 1, now |-> today,
                  lastNow |-> sweep.now, promotions |-> <<>>, resets |-> <<>>,
                  logged |-> 0, unhandled |-> 0,
                  promotion0 |-> promotion, promotionItem0 |-> promotionItem,
                  passwordReset0 |-> passwordReset ]
    /\ UNCHANGED <<db, today, req, faults, started, hist, passwordReset>>

\* PromotionModel.findAll returns; forEach starts one callback per expired
\* promotion, none of them awaited
SweepFindPromotions ==
    /\ sweep.pc = "findPromotions"
    /\ sweep' = [sweep EXCEPT !.pc = "findResets",
                              !.promotions = [id \in ExpiredPromotions(sweep.now) |-> "destroy"]]
    /\ UNCHANGED <<db, today, req, faults, started, hist, passwordReset>>

\* PromotionItemModel.destroy of one callback
PromotionDestroy(id) ==
    /\ id \in DOMAIN sweep.promotions /\ sweep.promotions[id] = "destroy"
    /\ promotionItem' = DestroyPromotionItems(id)
    /\ sweep' = [sweep EXCEPT !.promotions[id] = "save"]
    /\ UNCHANGED <<price, inventory, productStatus, promotion, carts, cartItems, orders, today, req, faults, started, hist, passwordReset>>

\* item.isActive = false; item.save() of one callback
PromotionSave(id) ==
    /\ id \in DOMAIN sweep.promotions /\ sweep.promotions[id] = "save"
    /\ promotion' = [promotion EXCEPT ![id].isActive = FALSE]
    /\ sweep' = [sweep EXCEPT !.promotions[id] = "done"]
    /\ UNCHANGED <<price, inventory, productStatus, promotionItem, carts, cartItems, orders, today, req, faults, started, hist, passwordReset>>

\* PasswordResetModel.findAll returns; forEach starts one callback per
\* expired row, none of them awaited, and the try block ends
SweepFindResets ==
    /\ sweep.pc = "findResets"
    /\ sweep' = [sweep EXCEPT !.pc = "done",
                              !.resets = [t \in ExpiredPasswordResets(sweep.now) |-> "destroy"]]
    /\ UNCHANGED <<db, today, req, faults, started, hist, passwordReset>>

\* item.destroy() of one callback
ResetDestroy(t) ==
    /\ t \in DOMAIN sweep.resets /\ sweep.resets[t] = "destroy"
    /\ passwordReset' = passwordReset \ {t}
    /\ sweep' = [sweep EXCEPT !.resets[t] = "done"]
    /\ UNCHANGED <<db, today, req, faults, started, hist>>

\* one of the two findAll rejects: the catch logs it and the callback ends
SweepFail ==
    /\ sweep.pc \in {"findPromotions", "findResets"}
    /\ CanFail
    /\ faults' = faults + 1
    /\ sweep' = [sweep EXCEPT !.pc = "done", !.logged = @ + 1]
    /\ UNCHANGED <<db, today, req, started, hist, passwordReset>>

\* destroy or save of a promotion callback rejects: the callback's promise
\* rejects, and nothing awaits or catches it
PromotionFail(id) ==
    /\ id \in DOMAIN sweep.promotions /\ sweep.promotions[id] \in {"destroy", "save"}
    /\ CanFail
    /\ faults' = faults + 1
    /\ sweep' = [sweep EXCEPT !.promotions[id] = "failed", !.unhandled = @ + 1]
    /\ UNCHANGED <<db, today, req, started, hist, passwordReset>>

\* item.destroy() of a password-reset callback rejects, caught by nothing
ResetFail(t) ==
    /\ t \in DOMAIN sweep.resets /\ sweep.resets[t] = "destroy"
    /\ CanFail
    /\ faults' = faults + 1
    /\ sweep' = [sweep EXCEPT !.resets[t] = "failed", !.unhandled = @ + 1]
    /\ UNCHANGED <<db, today, req, started, hist, passwordReset>>

\* a step of the cron callback or of one of its forEach callbacks
SweepStep ==
    \/ SweepFindPromotions
    \/ SweepFindResets
    \/ SweepFail
    \/ \E id \in DOMAIN sweep.promotions : PromotionDestroy(id)
    \/ \E id \in DOMAIN sweep.promotions : PromotionSave(id)
    \/ \E id \in DOMAIN sweep.promotions : PromotionFail(id)
    \/ \E t \in DOMAIN sweep.resets : ResetDestroy(t)
    \/ \E t \in DOMAIN sweep.resets : ResetFail(t)

----------------------------------------------------------------------------
(* Specifications *)

\* a cartItem row of a member's first cart
CartItem(id, p, q) == [id |-> id, cartId |-> 1, productId |-> p, quantity |-> q]

\* carts a member can have put together with POST /cart; <<>> stands for
\* a member without a Cart row
InitCartChoices ==
    {<<>>, <<CartItem(1, "p1", 1)>>, <<CartItem(1, "p1", MaxQuantity)>>,
     <<CartItem(1, "p1", 1), CartItem(2, "p2", 1)>>}

Init ==
    /\ price = ProductPrice
    /\ inventory = [p \in Products |-> InitInventory]
    /\ productStatus = [p \in Products |-> "1"]
    /\ inv0 = inventory
    /\ promotionItem = [p \in Products |-> IF p = "p1" THEN "s1" ELSE NoPromotion]
    /\ promotion = [s \in Promotions |-> [isActive |-> TRUE, startDate |-> 1, endDate |-> 2, discountValue |-> 15]]
    /\ today = 2
    /\ cartItems \in [Members -> InitCartChoices]
    /\ cart0 = cartItems
    /\ carts = [m \in Members |-> IF cartItems[m] = <<>> THEN 0 ELSE 1]
    /\ orders = <<>>
    /\ req = [r \in Requests |-> IdleReq]
    /\ faults = 0
    /\ started = 0
    /\ passwordReset = {}
    /\ sweep = IdleSweep

\* order ids a request can name: those of the order rows and one that is missing
OrderIds == 1..(Len(orders) + 1)

\* a request arrives, the limit-th at most
ReceiveCheckout(limit) ==
    /\ started < limit
    /\ \E r \in Requests, m \in Members : \E t \in {ClientTotal(m), ClientTotal(m) + 1} : StartCheckout(r, m, t)

ReceiveCancel(limit) ==
    /\ started < limit
    /\ \E r \in Requests, m \in Members, oid \in OrderIds : StartCancel(r, m, oid)

ReceiveAdminPatch(limit) ==
    /\ started < limit
    /\ \E r \in Requests, oid \in OrderIds, s \in OrderStatus : StartAdminPatch(r, oid, s)

ReceivePatchCart(limit) ==
    /\ started < limit
    /\ \E r \in Requests, m \in Members, p \in Products, q \in {1, MaxQuantity} : StartPatchCart(r, m, p, q)

ReceiveView(limit) ==
    /\ started < limit
    /\ \E r \in Requests, m \in Members, oid \in OrderIds : StartView(r, m, oid)

ReceiveAdminView(limit) ==
    /\ started < limit
    /\ \E r \in Requests, oid \in OrderIds : StartAdminView(r, oid)

\* a storage call of a checkout in flight returns
CheckoutStep ==
    \/ \E r \in Requests : CheckoutLoad(r)
    \/ \E r \in Requests : CheckoutCreate(r)
    \/ \E r \in Requests : CheckoutBulkCreate(r)
    \/ \E r \in Requests : CheckoutDestroy(r)
    \/ \E r \in Requests : CheckoutFail(r)

\* a storage call of a member cancel or admin status change in flight returns
OrderPatchStep ==
    \/ \E r \in Requests : CancelFind(r)
    \/ \E r \in Requests : CancelUpdate(r)
    \/ \E r \in Requests : AdminFind(r)
    \/ \E r \in Requests : AdminUpdate(r)
    \/ \E r \in Requests : OrderUpdateFail(r)

\* a storage call of a setQuantity in flight returns, or its update lands
PatchCartStep ==
    \/ \E r \in Requests : PatchCartFind(r)
    \/ \E r \in Requests : \E u \in req[r].cartUpdates : CartUpdateLands(r, u)

\* an un-awaited inventory update lands or fails
UpdateStep ==
    \/ \E r \in Requests : \E u \in req[r].updates : UpdateLands(r, u)
    \/ \E r \in Requests : \E u \in req[r].updates : UpdateFails(r, u)

\* a storage call of a request in flight returns, or an un-awaited write lands
Step ==
    \/ CheckoutStep
    \/ OrderPatchStep
    \/ PatchCartStep
    \/ UpdateStep

Next ==
    \/ ReceiveCheckout(MaxRequests)
    \/ ReceiveCancel(MaxRequests)
    \/ ReceiveAdminPatch(MaxRequests)
    \/ ReceivePatchCart(MaxRequests)
    \/ Step

\* requests arrive at any time: every interleaving of the handlers
Spec == Init /\ [][Next]_vars

\* requests arrive one after the other: a request is received when the one
\* before has responded and its writes have landed
NextSeq ==
    \/ Quiescent /\ ReceiveCheckout(MaxSeqRequests)
    \/ Quiescent /\ ReceiveCancel(MaxSeqRequests)
    \/ Quiescent /\ ReceiveAdminPatch(MaxSeqRequests)
    \/ Quiescent /\ ReceivePatchCart(MaxSeqRequests)
    \/ Step

SpecSeq == Init /\ [][NextSeq]_vars

\* any price of the first product, any promotion link, flag and discount
\* value, and any instant before, in or after the promotion's window; the
\* first member has a cart
InitPrice ==
    /\ price \in {f \in [Products -> PriceChoices] : f["p2"] = ProductPrice["p2"]}
    /\ inventory = [p \in Products |-> InitInventory]
    /\ productStatus = [p \in Products |-> "1"]
    /\ inv0 = inventory
    /\ promotionItem \in {f \in [Products -> Promotions \cup {NoPromotion}] : f["p2"] = NoPromotion}
    /\ promotion \in [Promotions -> [isActive : BOOLEAN, startDate : {1}, endDate : {2},
                                      discountValue : DiscountValues]]
    /\ today \in 0..MaxToday
    /\ cartItems \in {f \in [Members -> InitCartChoices] : f["m1"] # <<>> /\ f["m2"] = <<>>}
    /\ cart0 = cartItems
    /\ carts = [m \in Members |-> IF cartItems[m] = <<>> THEN 0 ELSE 1]
    /\ orders = <<>>
    /\ req = [r \in Requests |-> IdleReq]
    /\ faults = 0
    /\ started = 0
    /\ passwordReset = {}
    /\ sweep = IdleSweep

\* checkouts, one after the other
NextPrice ==
    \/ Quiescent /\ ReceiveCheckout(MaxPriceRequests)
    \/ CheckoutStep
    \/ UpdateStep

SpecPrice == InitPrice /\ [][NextPrice]_vars

\* a product id that no product row has
MissingProduct == "p0"

\* quantities a cart request can name: the body is not validated
QuantityChoices == {0, 1, MaxQuantity}

\* guest carts a login can carry: one line, the same product twice, two
\* products, and a line of quantity 0
GuestCarts ==
    { <<Line("p1", 1)>>, <<Line("p1", 1), Line("p1", MaxQuantity)>>,
      <<Line("p2", 1), Line("p1", 1)>>, <<Line("p2", 0)>> }

\* the member whose cart requests are followed
CartMembers == {"m1"}

ReceiveAddItem(limit) ==
    /\ started < limit
    /\ \E r \in Requests, m \in CartMembers, p \in Products \cup {MissingProduct}, q \in QuantityChoices :
          StartAddItem(r, m, p, q)

ReceiveSetQuantity(limit) ==
    /\ started < limit
    /\ \E r \in Requests, m \in CartMembers, p \in Products, q \in QuantityChoices :
          StartPatchCart(r, m, p, q)

ReceiveRemoveItem(limit) ==
    /\ started < limit
    /\ \E r \in Requests, m \in CartMembers, p \in Products : StartRemoveItem(r, m, p)

ReceiveLogin(limit) ==
    /\ started < limit
    /\ \E r \in Requests, m \in CartMembers, g \in GuestCarts : StartLogin(r, m, g)

\* a storage call of an addItem in flight returns
AddItemStep ==
    \/ \E r \in Requests : AddFindCart(r)
    \/ \E r \in Requests : AddCreateCart(r)
    \/ \E r \in Requests : AddFindProduct(r)
    \/ \E r \in Requests : AddFindItem(r)
    \/ \E r \in Requests : AddUpdate(r)
    \/ \E r \in Requests : AddCreate(r)
    \/ \E r \in Requests : AddFail(r)

ReceiveGetCart(limit) ==
    /\ started < limit
    /\ \E r \in Requests, m \in CartMembers : StartGetCart(r, m)

\* a storage call of a getCart in flight returns
GetCartStep ==
    \/ \E r \in Requests : GetFindCart(r)
    \/ \E r \in Requests : GetCreateCart(r)
    \/ \E r \in Requests : GetFindAgain(r)
    \/ \E r \in Requests : GetFail(r)

\* a storage call of a removeItem in flight returns
RemoveItemStep ==
    \/ \E r \in Requests : RemoveFindCart(r)
    \/ \E r \in Requests : RemoveDestroy(r)

\* a storage call of a login in flight, or of one of its callbacks, returns
LoginStep ==
    \/ \E r \in Requests : LoginFindCart(r)
    \/ \E r \in Requests : LoginCreateCart(r)
    \/ \E r \in Requests : LoginFail(r)
    \/ \E r \in Requests : \E i \in 1..Len(req[r].tasks) : MergeFind(r, i)
    \/ \E r \in Requests : \E i \in 1..Len(req[r].tasks) : MergeUpdate(r, i)
    \/ \E r \in Requests : \E i \in 1..Len(req[r].tasks) : MergeCreate(r, i)
    \/ \E r \in Requests : \E i \in 1..Len(req[r].tasks) : MergeFail(r, i)

CartStep ==
    \/ GetCartStep
    \/ AddItemStep
    \/ PatchCartStep
    \/ RemoveItemStep
    \/ LoginStep

ReceiveCheckCart(limit) ==
    /\ started < limit
    /\ \E r \in Requests, m \in CartMembers : StartCheckCart(r, m)

\* a storage call of a checkCart in flight returns
CheckCartStep ==
    \/ \E r \in Requests : CheckFindCart(r)
    \/ \E r \in Requests : CheckFindProduct(r)
    \/ \E r \in Requests : CheckFail(r)

\* any listing status and a sold-out or full inventory for each product; the
\* first member has no cart or one of the carts of InitCartChoices
InitCheck ==
    /\ price = ProductPrice
    /\ inventory \in [Products -> {0, InitInventory}]
    /\ productStatus \in [Products -> {"0", "1"}]
    /\ inv0 = inventory
    /\ promotionItem = [p \in Products |-> IF p = "p1" THEN "s1" ELSE NoPromotion]
    /\ promotion = [s \in Promotions |-> [isActive |-> TRUE, startDate |-> 1, endDate |-> 2, discountValue |-> 15]]
    /\ today = 2
    /\ cartItems \in {f \in [Members -> InitCartChoices] : f["m2"] = <<>>}
    /\ cart0 = cartItems
    /\ carts = [m \in Members |-> IF cartItems[m] = <<>> THEN 0 ELSE 1]
    /\ orders = <<>>
    /\ req = [r \in Requests |-> IdleReq]
    /\ faults = 0
    /\ started = 0
    /\ passwordReset = {}
    /\ sweep = IdleSweep

\* checkCart and setQuantity requests of one member, one after the other
NextCheck ==
    \/ Quiescent /\ ReceiveCheckCart(MaxRequests)
    \/ Quiescent /\ ReceiveSetQuantity(MaxRequests)
    \/ CheckCartStep
    \/ PatchCartStep

SpecCheck == InitCheck /\ [][NextCheck]_vars

\* the first member has no cart or one of the carts of InitCartChoices; the
\* second product has been taken off the listing
InitCart ==
    /\ price = ProductPrice
    /\ inventory = [p \in Products |-> InitInventory]
    /\ productStatus = [p \in Products |-> IF p = "p2" THEN "0" ELSE "1"]
    /\ inv0 = inventory
    /\ promotionItem = [p \in Products |-> IF p = "p1" THEN "s1" ELSE NoPromotion]
    /\ promotion = [s \in Promotions |-> [isActive |-> TRUE, startDate |-> 1, endDate |-> 2, discountValue |-> 15]]
    /\ today = 2
    /\ cartItems \in {f \in [Members -> InitCartChoices] : f["m2"] = <<>>}
    /\ cart0 = cartItems
    /\ carts = [m \in Members |-> IF cartItems[m] = <<>> THEN 0 ELSE 1]
    /\ orders = <<>>
    /\ req = [r \in Requests |-> IdleReq]
    /\ faults = 0
    /\ started = 0
    /\ passwordReset = {}
    /\ sweep = IdleSweep

\* cart requests of one member arrive at any time
NextCart ==
    \/ ReceiveGetCart(MaxRequests)
    \/ ReceiveAddItem(MaxRequests)
    \/ ReceiveSetQuantity(MaxRequests)
    \/ ReceiveRemoveItem(MaxRequests)
    \/ ReceiveLogin(MaxRequests)
    \/ CartStep

SpecCart == InitCart /\ [][NextCart]_vars

\* cart requests of one member arrive one after the other
NextCartSeq ==
    \/ Quiescent /\ ReceiveGetCart(MaxRequests)
    \/ Quiescent /\ ReceiveAddItem(MaxRequests)
    \/ Quiescent /\ ReceiveSetQuantity(MaxRequests)
    \/ Quiescent /\ ReceiveRemoveItem(MaxRequests)
    \/ Quiescent /\ ReceiveLogin(MaxRequests)
    \/ CartStep

SpecCartSeq == InitCart /\ [][NextCartSeq]_vars

\* PATCH /admin/promotion/:id with patch {isActive}: promotion.update
PromotionPatch(id, isActive) ==
    /\ promotion[id].isActive # isActive
    /\ promotion' = [promotion EXCEPT ![id].isActive = isActive]
    /\ UNCHANGED <<price, inventory, productStatus, promotionItem, carts, cartItems, orders, today, req, faults, started, hist, cron>>

\* the clock moves on
Tick ==
    /\ today < MaxToday
    /\ today' = today + 1
    /\ UNCHANGED <<db, req, faults, started, hist, cron>>

\* requests arrive one after the other while time passes
\* and promotions are edited
NextTime ==
    \/ NextSeq
    \/ Quiescent /\ ReceiveView(MaxSeqRequests)
    \/ \E r \in Requests : ViewFind(r)
    \/ Quiescent /\ ReceiveAdminView(MaxSeqRequests)
    \/ \E r \in Requests : AdminViewFind(r)
    \/ \E id \in Promotions, isActive \in BOOLEAN : PromotionPatch(id, isActive)
    \/ Tick

\* both members have a cart: one line, and two lines
InitTime ==
    /\ Init
    /\ cartItems["m1"] = <<CartItem(1, "p1", 1)>>
    /\ cartItems["m2"] = <<CartItem(1, "p1", 1), CartItem(2, "p2", 1)>>

SpecTime == InitTime /\ [][NextTime]_vars

\* one checkout, then status changes, cancels and order queries, one after
\* the other, while the clock advances
NextView ==
    \/ Quiescent /\ ReceiveCheckout(MaxPriceRequests)
    \/ Quiescent /\ ReceiveCancel(MaxViewRequests - 1)
    \/ Quiescent /\ ReceiveAdminPatch(MaxViewRequests - 1)
    \/ Quiescent /\ ReceiveView(MaxViewRequests)
    \/ Quiescent /\ ReceiveAdminView(MaxViewRequests)
    \/ CheckoutStep
    \/ OrderPatchStep
    \/ UpdateStep
    \/ \E r \in Requests : ViewFind(r)
    \/ \E r \in Requests : AdminViewFind(r)
    \/ Tick

SpecView == InitTime /\ [][NextView]_vars

\* the first checkout has been served, its inventory updates included
FirstServed == started >= 1 /\ (started = 1 => Quiescent)

\* one checkout served alone, then checkouts, member cancels and admin
\* status changes at any time
NextOverlap ==
    \/ ReceiveCheckout(MaxPriceRequests)
    \/ FirstServed /\ ReceiveCheckout(MaxOverlapRequests)
    \/ FirstServed /\ ReceiveCancel(MaxOverlapRequests)
    \/ FirstServed /\ ReceiveAdminPatch(MaxOverlapRequests)
    \/ CheckoutStep
    \/ OrderPatchStep
    \/ UpdateStep

SpecOverlap == InitTime /\ [][NextOverlap]_vars

\* the promotion rows the cleanup is followed on
SweptPromotions == {"s1", "s2"}

\* two promotions, each active or not and ended before today or today, with
\* the products linked to them; one expired and one unexpired reset token
InitSweep ==
    /\ price = ProductPrice
    /\ inventory = [p \in Products |-> InitInventory]
    /\ productStatus = [p \in Products |-> "1"]
    /\ inv0 = inventory
    /\ promotionItem \in [Products -> SweptPromotions]
    /\ promotion \in [SweptPromotions -> [isActive : BOOLEAN, startDate : {1}, endDate : {1, 2},
                                           discountValue : {15}]]
    /\ today = 2
    /\ cartItems = [m \in Members |-> <<>>]
    /\ cart0 = cartItems
    /\ carts = [m \in Members |-> 0]
    /\ orders = <<>>
    /\ req = [r \in Requests |-> IdleReq]
    /\ faults = 0
    /\ started = 0
    /\ passwordReset = {[token |-> "t1", expires |-> 1], [token |-> "t2", expires |-> 1],
                        [token |-> "t3", expires |-> 2]}
    /\ sweep = IdleSweep

\* the cleanup runs, pass after pass, while the clock advances
NextSweep ==
    \/ SweepStart
    \/ SweepStep
    \/ Tick

SpecSweep == InitSweep /\ [][NextSweep]_vars

----------------------------------------------------------------------------
(* Properties *)

\* quantity of product p over a sequence of cart lines or order items
RECURSIVE QuantityOf(_, _)
QuantityOf(lines, p) ==
    IF lines = <<>> THEN 0
    ELSE (IF Head(lines).productId = p THEN Head(lines).quantity ELSE 0) + QuantityOf(Tail(lines), p)

\* product p's quantity summed over all orders
RECURSIVE SoldFrom(_, _)
SoldFrom(os, p) ==
    IF os = <<>> THEN 0 ELSE QuantityOf(Head(os).orderItems, p) + SoldFrom(Tail(os), p)

IsCheckoutSuccess(r) == req[r].op = "checkout" /\ req[r].resp = CREATED

\* C1: inventory never goes negative - in every reachable state every
\* product's inventory is >= 0, whatever the interleaving of checkouts,
\* cancellations and cart edits.
C1_InventoryNeverNegative == \A p \in Products : inventory[p] >= 0

\* C2: no lost update between checkouts - when the only two requests are
\* checkouts that both reported success, nothing failed, every write has
\* landed and the inventory n covers q1 + q2, the inventory is n - q1 - q2.
C2_NoLostUpdate ==
    ( /\ started = 2 /\ faults = 0 /\ Quiescent
      /\ \A r \in Requests : IsCheckoutSuccess(r) )
    => \A p \in Products :
          inv0[p] >= SoldFrom(orders, p) => inventory[p] = inv0[p] - SoldFrom(orders, p)

\* C3: checkout is all-or-nothing - once the only request, a checkout, has
\* ended and its writes are settled, either it reported success and the
\* order, its items, the inventory decrements and the cleared cart are all
\* there, or it reported a failure and there is no order, the cart lines are
\* unchanged and every inventory is unchanged.
C3_CheckoutAllOrNothing ==
    \A r \in Requests :
        (started = 1 /\ req[r].op = "checkout" /\ Finished(r)) =>
            IF req[r].resp = CREATED
            THEN /\ Len(orders) = 1
                 /\ cartItems[req[r].member] = <<>>
                 /\ \A p \in Products :
                       /\ QuantityOf(orders[1].orderItems, p) = QuantityOf(cart0[req[r].member], p)
                       /\ inventory[p] = inv0[p] - QuantityOf(cart0[req[r].member], p)
            ELSE /\ orders = <<>>
                 /\ cartItems = cart0
                 /\ inventory = inv0

\* ceiling of a / 100
Ceiling100(a) == -((-a) \div 100)

\* effective unit price of product p, read from the tables
EffectivePrice(p) ==
    IF /\ promotionItem[p] # NoPromotion
       /\ promotion[promotionItem[p]].isActive
       /\ promotion[promotionItem[p]].startDate <= today
       /\ today <= promotion[promotionItem[p]].endDate
    THEN Ceiling100(price[p] * promotion[promotionItem[p]].discountValue)
    ELSE price[p]

\* sum over cart lines of effective unit price times quantity
RECURSIVE RecomputedTotal(_)
RecomputedTotal(lines) ==
    IF lines = <<>> THEN 0
    ELSE EffectivePrice(Head(lines).productId) * Head(lines).quantity + RecomputedTotal(Tail(lines))

C5_CheckoutConservation ==
    \A r \in Requests :
        (started = 1 /\ IsCheckoutSuccess(r)) =>
            LET m == req[r].member IN
            /\ Len(orders) = 1
            /\ orders[1].status = "created"
            /\ orders[1].memberId = m
            /\ Len(orders[1].orderItems) = Len(cart0[m])
            /\ \A i \in 1..Len(cart0[m]) :
                  /\ orders[1].orderItems[i].productId = cart0[m][i].productId
                  /\ orders[1].orderItems[i].quantity = cart0[m][i].quantity
            /\ \A p \in Products : inventory[p] = inv0[p] - QuantityOf(cart0[m], p)
            /\ cartItems[m] = <<>>
            /\ carts[m] = 1

\* C6: late insufficient-inventory check - a checkout never reports success
\* while one of its lines asks for more than the product's live inventory at
\* the time the decrements are issued.
C6_LateInsufficientInventoryAborts ==
    [][ \A r \in Requests :
          ( /\ req[r].op = "checkout" /\ req[r].pc = "destroy"
            /\ req'[r].op = "checkout" /\ req'[r].resp = CREATED )
          => \A i \in 1..Len(req[r].lines) :
                req[r].lines[i].quantity <= inventory[req[r].lines[i].productId] ]_vars

\* a successful cancellation of order oid, by the member or by an admin
IsCancelOf(r, oid) ==
    /\ req[r].orderId = oid
    /\ req[r].resp = NO_CONTENT
    /\ \/ req[r].op = "cancel"
       \/ req[r].op = "adminPatch" /\ req[r].status = "canceled"

\* C7: cancellation round-trip - with requests served one after the other
\* and no failed storage call, a successful checkout leaves every product of
\* the order at n - q, and the cancellation of that order (by the member or
\* by an admin) that follows it restores every such product to n.
C7_CancellationRoundTrip ==
    /\ ( started = 1 /\ Quiescent /\ faults = 0 /\ IsCheckoutSuccess(1) )
       => \A p \in Products : inventory[p] = inv0[p] - QuantityOf(orders[1].orderItems, p)
    /\ ( started = 2 /\ Quiescent /\ faults = 0 /\ IsCheckoutSuccess(1) /\ IsCancelOf(2, 1) )
       => \A p \in Products : inventory[p] = inv0[p]

\* C7 witness: an order of two items, each decremented at checkout, has been
\* canceled and both restores have landed.
C7_Witness ==
    /\ started = 2 /\ Quiescent /\ faults = 0 /\ IsCheckoutSuccess(1) /\ IsCancelOf(2, 1)
    /\ Len(orders[1].orderItems) = 2
    /\ orders[1].status = "canceled"

\* C8: inventory is restored at most once per order - with no failed
\* storage call, no two cancel requests
\* on the same order both succeed, and after a checkout followed by two
\* cancel requests on its order, one of them successful, every inventory is
\* back at its initial value.
C8_RestoredAtMostOnce ==
    /\ faults = 0 =>
          \A r1, r2 \in Requests : \A oid \in 1..Len(orders) :
              r1 # r2 => ~(IsCancelOf(r1, oid) /\ IsCancelOf(r2, oid))
    /\ ( /\ started = 3 /\ Quiescent /\ faults = 0 /\ Len(orders) = 1
         /\ \A r \in Requests : req[r].orderId = 1 /\ req[r].status = "canceled"
                                /\ req[r].op \in {"cancel", "adminPatch"}
         /\ \E r \in Requests : IsCancelOf(r, 1) )
       => inventory = inv0

\* position of a status on the way created -> confirmed -> shipped -> delivered
Rank(s) == CASE s = "created" -> 1 [] s = "confirmed" -> 2 [] s = "shipped" -> 3
             [] s = "delivered" -> 4 [] OTHER -> 5

\* C9: order status moves forward only - with no failed storage call, a
\* step changes an order's status
\* only to a later status of created -> confirmed -> shipped -> delivered or
\* to canceled, and never changes a delivered or canceled order.
C9_StatusForwardOnly ==
    [][ \A oid \in 1..Len(orders) :
          (faults = 0 /\ orders'[oid].status # orders[oid].status) =>
             /\ orders[oid].status \notin {"delivered", "canceled"}
             /\ Rank(orders'[oid].status) > Rank(orders[oid].status) ]_vars

\* C10: cancellation only from created or confirmed - with no failed
\* storage call, a cancel request (member or admin) on an order that is
\* shipped or delivered does not set it canceled and issues no inventory
\* restore.
C10_CancelOnlyFromCreatedOrConfirmed ==
    [][ \A r \in Requests :
          ( /\ faults' = 0
            /\ req[r].pc = "update" /\ req'[r].pc = "done"
            /\ req[r].status = "canceled"
            /\ orders[req[r].orderId].status \in {"shipped", "delivered"} )
          => /\ orders'[req[r].orderId].status = orders[req[r].orderId].status
             /\ req'[r].updates = {} ]_vars

\* the timestamp columns of an order
TimestampFields ==
    {"orderCreatedAt", "orderConfirmedAt", "orderShippedAt", "orderDeliveredAt", "orderCanceledAt"}

\* C11: each order timestamp is set exactly once - with no failed storage
\* call, once a timestamp field of an order holds a value no step changes
\* that value, also when a status request re-enters the status the order has.
C11_TimestampSetOnce ==
    [][ \A oid \in 1..Len(orders) : \A f \in TimestampFields :
          (faults = 0 /\ orders[oid][f] # NoDate) => orders'[oid][f] = orders[oid][f] ]_vars

\* the order a request names is missing or belongs to another member
NotOwnOrder(r) ==
    \/ req[r].orderId \notin 1..Len(orders)
    \/ orders[req[r].orderId].memberId # req[r].member

\* C12: ownership isolation - a view or cancel request of a member for an
\* order of another member, or for an order id that does not exist, is
\* answered with the not-found client error (400), carries none of the
\* order's data, ends there, starts no inventory update and changes no
\* order, timestamp, inventory or cart.
C12_OwnershipIsolation ==
    [][ \A r \in Requests :
          ( /\ req[r].op \in {"view", "cancel"}
            /\ req[r].pc = "find" /\ req'[r].pc # "find"
            /\ NotOwnOrder(r) )
          => /\ req'[r].pc = "done"
             /\ req'[r].resp = BAD_REQUEST
             /\ req'[r].body = NoBody
             /\ req'[r].updates = {}
             /\ db' = db ]_vars

\* C12 witness: a member's view and cancel requests for an order of another
\* member were both rejected, and the order still is as checkout created it.
C12_Witness ==
    \E r1, r2 \in Requests :
        /\ req[r1].op = "view" /\ req[r2].op = "cancel"
        /\ req[r1].orderId = 1 /\ req[r2].orderId = 1
        /\ Len(orders) = 1
        /\ orders[1].memberId # req[r1].member /\ orders[1].memberId # req[r2].member
        /\ req[r1].resp = BAD_REQUEST /\ req[r2].resp = BAD_REQUEST
        /\ req[r1].body = NoBody
        /\ orders[1].status = "created" /\ orders[1].orderCanceledAt = NoDate
        /\ orders[1].orderItems # <<>>

\* the unit price of an entry of the cart view or of an order item
ShownPrice(item) == IF item.hasDiscount THEN item.discountPrice ELSE item.price

\* C13: effective price - the unit price the cart view shows and checkout
\* uses is the integer ceiling of price * discountValue / 100 when the
\* product has a promotion link whose promotion is active and whose window
\* holds now, and the undiscounted price otherwise: for every line of the
\* cart view, for the total a checkout accepts, and for every order item.
C13_EffectivePrice ==
    /\ \A m \in Members : \A i \in 1..Len(CartView(m)) :
          ShownPrice(CartView(m)[i]) = EffectivePrice(CartView(m)[i].productId)
    /\ \A r \in Requests :
          (req[r].op = "checkout" /\ req[r].pc = "create")
              => req[r].totalAmount = RecomputedTotal(cartItems[req[r].member])
    /\ \A oid \in 1..Len(orders) : \A i \in 1..Len(orders[oid].orderItems) :
          ShownPrice(orders[oid].orderItems[i]) = EffectivePrice(orders[oid].orderItems[i].productId)

\* the sum over order items of the unit price stored times the quantity
RECURSIVE ItemsTotal(_)
ItemsTotal(items) ==
    IF items = <<>> THEN 0
    ELSE ShownPrice(Head(items)) * Head(items).quantity + ItemsTotal(Tail(items))

\* C14: snapshot and total agree - with no failed storage call, for every
\* order whose items checkout has stored, the order's declared total is the
\* sum over its items of (discountPrice if present, else price) times
\* quantity, also when the promotion's window ends or its flag changes
\* while the checkout is running.
C14_SnapshotAndTotalAgree ==
    \A oid \in 1..Len(orders) :
        (faults = 0 /\ orders[oid].orderItems # <<>>)
            => orders[oid].totalAmount = ItemsTotal(orders[oid].orderItems)

\* C15: order items are immutable - no step removes an order, and once the
\* items of an order are stored no step changes their number or any item's
\* product, quantity, price or discountPrice: not a status change, a
\* cancellation, a promotion edit, the passing of time, a cart edit or
\* another checkout.
C15_OrderItemsImmutable ==
    [][ /\ Len(orders') >= Len(orders)
        /\ \A oid \in 1..Len(orders) :
              orders[oid].orderItems # <<>> => orders'[oid].orderItems = orders[oid].orderItems ]_vars

\* C15 witness: an order of two items, one of them discounted, was canceled;
\* since then the promotion was switched off, its window has ended and
\* another checkout has created a second order.
C15_Witness ==
    /\ Len(orders) = 2
    /\ orders[1].status = "canceled"
    /\ Len(orders[1].orderItems) = 2
    /\ orders[1].orderItems[1].hasDiscount
    /\ orders[2].orderItems # <<>>
    /\ ~promotion["s1"].isActive
    /\ today = MaxToday
    /\ Quiescent

\* the first line of product p among some cart lines, 0 when there is none
FirstLineOf(lines, p) ==
    IF \E i \in 1..Len(lines) : lines[i].productId = p
    THEN CHOOSE i \in 1..Len(lines) :
            /\ lines[i].productId = p
            /\ \A j \in 1..(i - 1) : lines[j].productId # p
    ELSE 0

\* C16: addItem - with requests served one after the other and no failed
\* storage call in the request, addItem answers 400 and leaves every cart
\* line unchanged when the product is missing or not listed or when the
\* line's quantity plus the requested quantity exceeds the product's
\* inventory; otherwise it answers 201 and either raises that line's
\* quantity by the requested quantity or appends a line with the requested
\* quantity, and changes no other line.
C16_AddItemContract ==
    [][ \A r \in Requests :
          ( /\ req[r].op = "addItem" /\ req[r].pc # "done" /\ req'[r].pc = "done"
            /\ faults' = faults )
          => LET m == req[r].member
                 p == req[r].productId
                 q == req[r].quantity
                 lines == cartItems[m]
                 i == FirstLineOf(lines, p)
                 existing == IF i = 0 THEN 0 ELSE lines[i].quantity
             IN  IF p \notin Products \/ productStatus[p] # "1" \/ existing + q > inventory[p]
                 THEN req'[r].resp = BAD_REQUEST /\ cartItems' = cartItems
                 ELSE /\ req'[r].resp = CREATED
                      /\ \A m2 \in Members \ {m} : cartItems'[m2] = cartItems[m2]
                      /\ IF i # 0
                         THEN /\ Len(cartItems'[m]) = Len(lines)
                              /\ cartItems'[m][i] = [lines[i] EXCEPT !.quantity = existing + q]
                              /\ \A j \in 1..Len(lines) : j # i => cartItems'[m][j] = lines[j]
                         ELSE /\ Len(cartItems'[m]) = Len(lines) + 1
                              /\ cartItems'[m][Len(lines) + 1].productId = p
                              /\ cartItems'[m][Len(lines) + 1].quantity = q
                              /\ \A j \in 1..Len(lines) : cartItems'[m][j] = lines[j] ]_vars

\* C16 witness: an addItem raised the line of p1 from 1 to 2, and the next
\* addItem for p1 was rejected because 2 + 1 exceeds the inventory of 2.
C16_Witness ==
    /\ req[1].op = "addItem" /\ req[1].resp = CREATED /\ req[1].productId = "p1" /\ req[1].quantity = 1
    /\ req[2].op = "addItem" /\ req[2].resp = BAD_REQUEST /\ req[2].productId = "p1" /\ req[2].quantity = 1
    /\ cart0["m1"] = <<CartItem(1, "p1", 1)>>
    /\ cartItems["m1"] = <<CartItem(1, "p1", 2)>>
    /\ inventory["p1"] = 2


----------------------------------------------------------------------------
\* C17: a cart never holds two CartItem rows of the same (cart, product)
\* pair, whatever the interleaving of addItem, the login merge, setQuantity
\* and removeItem.
C17_OneLinePerProduct ==
    \A m \in Members :
        \A i, j \in 1..Len(cartItems[m]) :
            ( /\ cartItems[m][i].cartId = cartItems[m][j].cartId
              /\ cartItems[m][i].productId = cartItems[m][j].productId )
            => i = j


----------------------------------------------------------------------------
\* the quantity the addItem requests that reported success asked to add
AddedQuantity(p) ==
    LET added(r) == IF /\ req[r].op = "addItem" /\ req[r].resp = CREATED /\ req[r].productId = p
                    THEN req[r].quantity ELSE 0
    IN added(1) + added(2)

\* C18: once a login that answered 200 has finished its guest-cart merge,
\* alone or next to a finished addItem of the same member and with no failed
\* storage call, the member's cart holds of every product the quantity it
\* held before plus the guest lines' quantities of that product (plus what
\* the addItem added); products the guest cart does not list are unchanged.
C18_MergeLosesNothing ==
    \A r \in Requests :
        ( /\ req[r].op = "login" /\ req[r].resp = OK /\ Finished(r)
          /\ faults = 0
          /\ \A o \in Requests \ {r} : req[o].op = "idle" \/ (req[o].op = "addItem" /\ Finished(o)) )
        => \A p \in Products :
              QuantityOf(cartItems[req[r].member], p)
                  = QuantityOf(cart0[req[r].member], p) + QuantityOf(req[r].tasks, p) + AddedQuantity(p)


----------------------------------------------------------------------------
\* C19: when two addItem requests of one member for one product, with
\* quantities q1 and q2, have both answered 201 and no storage call failed,
\* the cart holds of that product the quantity it held before plus q1 + q2,
\* however their reads and writes interleaved.
C19_NoLostCartUpdate ==
    ( /\ req[1].op = "addItem" /\ req[1].resp = CREATED
      /\ req[2].op = "addItem" /\ req[2].resp = CREATED
      /\ req[1].member = req[2].member /\ req[1].productId = req[2].productId
      /\ faults = 0 )
    => QuantityOf(cartItems[req[1].member], req[1].productId)
          = QuantityOf(cart0[req[1].member], req[1].productId) + req[1].quantity + req[2].quantity


----------------------------------------------------------------------------
\* C20: every CartItem row has quantity >= 1, whatever integer quantities
\* the addItem, setQuantity and login requests carry.
C20_QuantityAtLeastOne ==
    \A m \in Members :
        \A i \in 1..Len(cartItems[m]) : cartItems[m][i].quantity >= 1


----------------------------------------------------------------------------
\* C21: a member never has more than one Cart row, whatever the
\* interleaving of the member's getCart, addItem and login requests, each of
\* which creates the cart when it finds none.
C21_OneCartPerMember == \A m \in Members : carts[m] <= 1


----------------------------------------------------------------------------
\* C22: when PATCH /cart answers 204 for a product the cart has a line of,
\* that line's quantity is, at the response, the requested one whatever the
\* product's inventory is; no other cart line, no inventory and no order
\* has changed.
C22_SetQuantityStored ==
    [][ \A r \in Requests :
          LET m == req[r].member
              cartItem == FindCartItem(m, FindCart(m), req[r].productId)
          IN  ( /\ req[r].op = "patchCart" /\ req[r].pc = "find"
                /\ req'[r].pc = "done" /\ req'[r].resp = NO_CONTENT
                /\ cartItem # NoCartItem )
              => /\ cartItems' = UpdateCartItem(m, cartItem.id, req[r].quantity)
                 /\ inventory' = inventory
                 /\ orders' = orders ]_vars


----------------------------------------------------------------------------
\* a cart line the check has to report: its product is gone, is unlisted,
\* or has less inventory than the line's quantity
LineViolates(item) ==
    \/ item.productId \notin Products
    \/ productStatus[item.productId] # "1"
    \/ item.quantity > inventory[item.productId]

\* C23: when GET /cart/check responds without a failed storage call, its
\* result has exactly one message for each cart line whose product is gone,
\* is unlisted or has less inventory than the line's quantity, and none for
\* any other line; it answers 200 exactly when no line is reported, and no
\* table has changed.
C23_CheckCart ==
    [][ \A r \in Requests :
          ( /\ req[r].op = "checkCart" /\ req[r].pc # "done" /\ req'[r].pc = "done"
            /\ faults' = faults )
          => LET items == CartItemsOf(req[r].member, FindCart(req[r].member))
                 result == req'[r].body.result
                 MessagesOf(item) == Cardinality({k \in 1..Len(result) : result[k].id = item.id})
             IN  /\ \A i \in 1..Len(items) :
                        MessagesOf(items[i]) = IF LineViolates(items[i]) THEN 1 ELSE 0
                 /\ (req'[r].resp = OK) <=> (\A i \in 1..Len(items) : ~LineViolates(items[i]))
                 /\ db' = db ]_vars


----------------------------------------------------------------------------
\* the timeline an order has to be shown with: the created entry, then one
\* entry for each timestamp field that is set, in the fixed order
ExpectedTimeline(order) ==
    LET Entry(content, timestamp) ==
            IF timestamp = NoDate THEN <<>> ELSE <<[content |-> content, timestamp |-> timestamp]>>
    IN  <<[content |-> "created", timestamp |-> order.orderCreatedAt]>>
            \o Entry("confirmed", order.orderConfirmedAt)
            \o Entry("shipped", order.orderShippedAt)
            \o Entry("delivered", order.orderDeliveredAt)
            \o Entry("canceled", order.orderCanceledAt)

\* C24: the orderTimeStamp list a member or admin order query returns
\* starts with the created entry carrying orderCreatedAt, followed by
\* exactly the entries whose timestamp field is set, in the order confirmed,
\* shipped, delivered, canceled, whatever order the transitions happened
\* in; the query changes no table.
C24_OrderTimeline ==
    [][ \A r \in Requests :
          ( /\ req[r].op \in {"view", "adminView"}
            /\ req[r].pc = "find" /\ req'[r].pc = "done" /\ req'[r].resp = OK )
          => /\ req'[r].body.orderTimeStamp = ExpectedTimeline(orders[req[r].orderId])
             /\ db' = db ]_vars

\* C24 witness: an order that went to shipped and then back to confirmed at
\* a later instant is shown with created, confirmed, shipped in that order.
C24_Witness ==
    \E r \in Requests :
        /\ req[r].op \in {"view", "adminView"} /\ req[r].resp = OK
        /\ Len(req[r].body.orderTimeStamp) = 3
        /\ req[r].body.orderTimeStamp[2].content = "confirmed"
        /\ req[r].body.orderTimeStamp[3].content = "shipped"
        /\ req[r].body.orderTimeStamp[3].timestamp < req[r].body.orderTimeStamp[2].timestamp


----------------------------------------------------------------------------
\* the products linked to a promotion by the promotion_item rows
LinksOf(links, id) == {p \in DOMAIN links : links[p] = id}

\* what a finished pass sw has to leave in the promotion rows pr and the
\* promotion_item rows links
SweepPostcondition(sw, pr, links) ==
    \A id \in DOMAIN pr :
        IF sw.promotion0[id].endDate < sw.now /\ sw.promotion0[id].isActive
        THEN /\ pr[id] = [sw.promotion0[id] EXCEPT !.isActive = FALSE]
             /\ LinksOf(links, id) = {}
        ELSE /\ pr[id] = sw.promotion0[id]
             /\ LinksOf(links, id) = LinksOf(sw.promotionItem0, id)

\* C25: once a pass of the cleanup started at instant now has finished all
\* its work with no failed storage call, every promotion that had
\* endDate < now and was active at the start is inactive and has no links,
\* every other promotion and its links are as they were at the start; a
\* promotion's flag is cleared only when its links are gone, and no step
\* of the cleanup turns an inactive promotion active.
C25_SweepPostcondition ==
    [][ /\ ( /\ sweep'.pc = "done"
             /\ \A id \in DOMAIN sweep'.promotions : sweep'.promotions[id] = "done"
             /\ faults' = 0 )
           => SweepPostcondition(sweep', promotion', promotionItem')
        /\ \A id \in DOMAIN promotion :
              /\ (promotion[id].isActive /\ ~promotion'[id].isActive) => LinksOf(promotionItem, id) = {}
              /\ ~promotion[id].isActive => ~promotion'[id].isActive ]_vars

\* C25 witness: a finished pass has deactivated and unlinked the first
\* promotion, which was active, expired and linked, and has left the
\* second one, active and not expired, with its link.
C25_Witness ==
    /\ SweepFinished /\ faults = 0
    /\ sweep.promotion0["s1"].isActive /\ sweep.promotion0["s1"].endDate < sweep.now
    /\ LinksOf(sweep.promotionItem0, "s1") # {}
    /\ ~promotion["s1"].isActive /\ LinksOf(promotionItem, "s1") = {}
    /\ promotion["s2"].isActive /\ promotion["s2"].endDate >= sweep.now
    /\ LinksOf(promotionItem, "s2") # {}


----------------------------------------------------------------------------
\* C26: a second pass of the cleanup at the instant of the first, after a
\* first pass in which no storage call failed and with nothing else
\* writing in between, is a no-op - it selects no promotion and no token,
\* changes no promotion, no link and no password-reset row, and neither
\* logs nor raises an error.
C26_SweepIdempotent ==
    [][ ( /\ sweep'.pass = 2
          /\ sweep'.now = sweep'.lastNow
          /\ faults' = 0 )
        => /\ DOMAIN sweep'.promotions = {}
           /\ DOMAIN sweep'.resets = {}
           /\ promotion' = promotion
           /\ promotionItem' = promotionItem
           /\ passwordReset' = passwordReset
           /\ sweep'.logged = 0
           /\ sweep'.unhandled = 0 ]_vars

\* C26 witness: the second pass has finished at the instant of the first,
\* which had unlinked a promotion and deleted the expired tokens.
C26_Witness ==
    /\ sweep.pass = 2 /\ SweepFinished
    /\ sweep.now = sweep.lastNow /\ faults = 0
    /\ \E p \in Products : promotionItem[p] = NoPromotion
    /\ \E id \in DOMAIN promotion : promotion[id].endDate < sweep.now /\ ~promotion[id].isActive
    /\ Cardinality(passwordReset) = 1


----------------------------------------------------------------------------
\* C27: a failure in the cleanup stays with the record it happened on -
\* when a pass has finished, every promotion and every password-reset row
\* that was due at its start has been processed unless its own callback
\* failed, also when the promotions query or another record's callback
\* failed, and every failure was caught and logged, none left unhandled.
C27_SweepFailureIsolation ==
    SweepFinished =>
        /\ \A id \in DOMAIN sweep.promotion0 :
              ( /\ sweep.promotion0[id].endDate < sweep.now /\ sweep.promotion0[id].isActive
                /\ ~(id \in DOMAIN sweep.promotions /\ sweep.promotions[id] = "failed") )
              => ~promotion[id].isActive /\ LinksOf(promotionItem, id) = {}
        /\ \A t \in sweep.passwordReset0 :
              ( /\ t.expires < sweep.now
                /\ ~(t \in DOMAIN sweep.resets /\ sweep.resets[t] = "failed") )
              => t \notin passwordReset
        /\ sweep.unhandled = 0


----------------------------------------------------------------------------
\* C28: a cancellation restores onto the current inventory - when, after a
\* first checkout, the cancellation of its order (by the member or by an
\* admin) and a second checkout overlap, both report success, no storage
\* call failed and every write has landed, each product's inventory is the
\* initial one less the second order's quantity (n + qc - qk, with n the
\* inventory the first checkout left), for every interleaving.
C28_RestoreOntoCurrentInventory ==
    \A c, k \in Requests :
        ( /\ started = MaxOverlapRequests /\ Quiescent /\ faults = 0
          /\ c # k
          /\ IsCancelOf(c, 1)
          /\ IsCheckoutSuccess(k)
          /\ Len(orders) = 2 )
        => \A p \in Products :
              inventory[p] = inv0[p] - QuantityOf(orders[2].orderItems, p)


----------------------------------------------------------------------------
\* C29: every order has at least one item - once no request is in flight
\* and no storage call has failed, each Order row owns at least one
\* OrderItem; a checkout of a member whose cart has no lines creates none.
C29_OrderHasItems ==
    (Quiescent /\ faults = 0) =>
        \A oid \in 1..Len(orders) : Len(orders[oid].orderItems) >= 1


----------------------------------------------------------------------------
\* the timestamp field that goes with a status
TimestampOf(order) ==
    CASE order.status = "created" -> order.orderCreatedAt
      [] order.status = "confirmed" -> order.orderConfirmedAt
      [] order.status = "shipped" -> order.orderShippedAt
      [] order.status = "delivered" -> order.orderDeliveredAt
      [] order.status = "canceled" -> order.orderCanceledAt

\* C30: status and timestamps stay consistent - every order has
\* orderCreatedAt set, and an order whose status is confirmed, shipped,
\* delivered or canceled has the timestamp field of that status set.
C30_StatusHasTimestamp ==
    \A oid \in 1..Len(orders) :
        /\ orders[oid].orderCreatedAt # NoDate
        /\ TimestampOf(orders[oid]) # NoDate

\* C30 witness: an order was set to shipped by an admin and then canceled
\* by its member; it has the timestamps of both, and none for confirmed.
C30_Witness ==
    \E oid \in 1..Len(orders) :
        /\ orders[oid].status = "canceled"
        /\ orders[oid].orderCanceledAt # NoDate
        /\ orders[oid].orderShippedAt # NoDate
        /\ orders[oid].orderConfirmedAt = NoDate

====
